---- MODULE Spec2Model ----
(***************************************************************************)
(* Reconciliation control core of the reconciler service.                  *)
(*                                                                         *)
(* Part 1: ClusterStatusTransition (StartReconciliation and                *)
(*         FinishReconciliation) running as database transactions of       *)
(*         concurrent processes against the inventory and the              *)
(*         reconciliation repository.                                      *)
(* Part 2: the component runner (Run, reconcile, install) with its retry   *)
(*         loop, its status updater and its cancellation context.          *)
(* Part 3: the REST handlers of the service (createOrUpdate, get,          *)
(*         statusChanges, delete) in front of the inventory.               *)
(***************************************************************************)
EXTENDS Integers, Sequences, FiniteSets, TLC

\* ------------------------------------------------------------------ bounds
MaxConfigVersion == 2   \* config versions per cluster
MaxStatuses == 4        \* status records per cluster
MaxRecons == 2          \* reconciliation entities per cluster
NumComponents == 1      \* components (operations) per cluster config
MaxRetries == 3         \* largest maxRetries a runner is configured with
MaxManifests == 2       \* manifests the chart provider returns for a component

Clusters == {"c1"}
Procs == {"p1", "p2"}

\* ---------------------------------------------------------- value domains
Statuses == {"Reconcilable", "Reconciling", "Ready", "Error", "Deleting", "Deleted"}

OpStates == {"new", "inProgress", "done", "error", "clientError"}

TerminalOpStates == {"done", "error"}

NoState == [cluster |-> "", configVersion |-> 0, status |-> ""]

NoReconciler ==
  [maxRetries |-> 0, preInstallAction |-> FALSE, installAction |-> FALSE,
   postInstallAction |-> FALSE]

NoResponse ==
  [handler |-> "none", cluster |-> "", code |-> 0, invErr |-> "nil",
   deleteInvoked |-> FALSE, delErr |-> "nil"]

NoTx ==
  [op |-> "none", cluster |-> "", state |-> NoState, schedulingID |-> 0,
   status |-> "", wRecon |-> FALSE, wStatus |-> <<>>, wFinish |-> FALSE,
   updated |-> FALSE, err |-> "nil"]

VARIABLES
  configs,     \* configs[c]: the cluster's config versions (components of each)
  statuses,    \* statuses[c]: the cluster's append-only status history
  recons,      \* recons[c]: the cluster's reconciliation entities
  operations,  \* operations[c][i]: operation states of reconciliation i of c
  pc,          \* pc[p]: position of process p inside its transaction
  tx           \* tx[p]: arguments, locals and uncommitted writes of p
               \*   schedulingID: index of the reconciliation within its cluster
               \*   updated: Inventory.UpdateStatus was invoked in this call

VARIABLES
  runner,      \* the ComponentReconciler: maxRetries and the registered actions
  rpc,         \* position of Run
  attempt,     \* retry.Do: index of the current attempt
  ctxDone,     \* the context passed to Run is cancelled
  updates,     \* lifecycle states Run has asked the status updater to send
  outcomes,    \* result of every finished call of the retried function
  ret,         \* what Run returned
  delivered,   \* delivered[i]: the status updater accepted updates[i]
  trace,       \* steps of reconcile started in the current attempt, in order
  errKind,     \* kind of the error reconcile returned in the current attempt
  installCRD,  \* model.InstallCRD of the reconciliation passed to Run
  manifests,   \* types of the manifests the chart provider returned
  manifest,    \* the bundle renderManifest returned
  illegalState, \* renderManifest logged "Illegal state detected!"
  deployed     \* the bundle kubeClient.Deploy was called with

VARIABLES
  resp         \* the response of the last REST request and what it invoked

storeVars == <<configs, statuses, recons, operations>>

transitionVars == <<configs, statuses, recons, operations, pc, tx>>

renderVars == <<manifests, manifest, illegalState, deployed>>

runnerVars == <<runner, rpc, attempt, ctxDone, updates, outcomes, ret,
                delivered, trace, errKind, installCRD,
                manifests, manifest, illegalState, deployed>>

restVars == <<resp>>

vars == <<configs, statuses, recons, operations, pc, tx,
          runner, rpc, attempt, ctxDone, updates, outcomes, ret,
          delivered, trace, errKind, installCRD,
          manifests, manifest, illegalState, deployed, resp>>

\* ------------------------------------------------------------- inventory
Exists(c) == Len(configs[c]) > 0

LatestStatus(c) == statuses[c][Len(statuses[c])].status

StatusIDs(c, v) == {i \in DOMAIN statuses[c] : statuses[c][i].configVersion = v}

Max(S) == CHOOSE x \in S : \A y \in S : y <= x

\* Inventory.Get: the state of the cluster at one config version.
Get(c, v) ==
  [cluster |-> c, configVersion |-> v,
   status |-> statuses[c][Max(StatusIDs(c, v))].status]

\* The cluster status state machine.
Permitted(from, to) ==
  \/ from = "Reconcilable" /\ to = "Reconciling"
  \/ from = "Reconciling" /\ to \in {"Ready", "Error"}
  \/ from \in {"Ready", "Error"} /\ to \in {"Reconciling", "Deleting"}
  \/ from = "Deleting" /\ to \in {"Deleted", "Reconcilable"}

\* Inventory.UpdateStatus: the record to append, or the error.
UpdateStatus(state, newStatus) ==
  IF Permitted(state.status, newStatus)
    THEN [err |-> "nil",
          rec |-> <<[configVersion |-> state.configVersion, status |-> newStatus]>>]
    ELSE [err |-> "InvalidTransition", rec |-> <<>>]

\* ------------------------------------------------- reconciliation repository
InFlight(c) == {i \in DOMAIN recons[c] : ~recons[c][i].finished}

\* CreateReconciliation without the verification of the single-flight index.
CreateReconciliationUnverified(state) == "nil"

\* Repository.CreateReconciliation: verify that no reconciliation is in flight.
CreateReconciliation(state) ==
  IF InFlight(state.cluster) # {} THEN "DuplicateClusterReconciliation" ELSE "nil"

AllTerminal(c, i) ==
  \A k \in DOMAIN operations[c][i] : operations[c][i][k] \in TerminalOpStates

\* Repository.FinishReconciliation: allowed only when every operation is terminal.
RepoFinishReconciliation(c, i) ==
  IF recons[c][i].finished \/ ~AllTerminal(c, i) THEN "AlreadyFinished" ELSE "nil"

\* --------------------------------------------------------- bookkeeping
Active(c) == {q \in Procs : pc[q] # "idle" /\ tx[q].cluster = c}

ActiveStarts(c) == {q \in Active(c) : tx[q].op = "start"}

RoomForStatus(c) == Len(statuses[c]) + Cardinality(Active(c)) < MaxStatuses

RoomForRecon(c) == Len(recons[c]) + Cardinality(ActiveStarts(c)) < MaxRecons

Init ==
  /\ configs = [c \in Clusters |-> <<>>]
  /\ statuses = [c \in Clusters |-> <<>>]
  /\ recons = [c \in Clusters |-> <<>>]
  /\ operations = [c \in Clusters |-> <<>>]
  /\ pc = [p \in Procs |-> "idle"]
  /\ tx = [p \in Procs |-> NoTx]
  /\ runner = NoReconciler
  /\ rpc = "new"
  /\ attempt = 0
  /\ ctxDone = FALSE
  /\ updates = <<>>
  /\ outcomes = <<>>
  /\ ret = "none"
  /\ delivered = <<>>
  /\ trace = <<>>
  /\ errKind = "nil"
  /\ installCRD = FALSE
  /\ manifests = <<>>
  /\ manifest = <<>>
  /\ illegalState = FALSE
  /\ deployed = <<>>
  /\ resp = NoResponse

\* ------------------------------------------------------ inventory actions
\* Inventory.CreateOrUpdate with a semantically new configuration: a new
\* config version and a new status record Reconcilable.
CreateOrUpdate(c) ==
  /\ Len(configs[c]) < MaxConfigVersion
  /\ RoomForStatus(c)
  /\ Exists(c) => LatestStatus(c) # "Deleted"
  /\ \E n \in 1..NumComponents :
       configs' = [configs EXCEPT ![c] = Append(@, n)]
  /\ statuses' = [statuses EXCEPT ![c] =
       Append(@, [configVersion |-> Len(configs[c]) + 1, status |-> "Reconcilable"])]
  /\ UNCHANGED <<recons, operations, pc, tx, runnerVars, restVars>>

\* Inventory.Delete: the cluster transitions to Deleting.
Delete(c) ==
  /\ Exists(c)
  /\ LatestStatus(c) \notin {"Deleting", "Deleted"}
  /\ RoomForStatus(c)
  /\ statuses' = [statuses EXCEPT ![c] =
       Append(@, [configVersion |-> Len(configs[c]), status |-> "Deleting"])]
  /\ UNCHANGED <<configs, recons, operations, pc, tx, runnerVars, restVars>>

\* A cluster in Deleting ends in Deleted.
DeleteDone(c) ==
  /\ Exists(c)
  /\ LatestStatus(c) = "Deleting"
  /\ RoomForStatus(c)
  /\ statuses' = [statuses EXCEPT ![c] =
       Append(@, [configVersion |-> Len(configs[c]), status |-> "Deleted"])]
  /\ UNCHANGED <<configs, recons, operations, pc, tx, runnerVars, restVars>>

\* The operation state machine.
OpPermitted(from, to) ==
  \/ from = "new" /\ to = "inProgress"
  \/ from = "inProgress" /\ to \in {"done", "error", "clientError"}
  \/ from = "clientError" /\ to = "inProgress"

\* Repository.UpdateOperationState, compare-and-set on the stored state.
UpdateOperationState(c, i, k) ==
  /\ i \in DOMAIN operations[c]
  /\ k \in DOMAIN operations[c][i]
  /\ \E to \in OpStates :
       /\ OpPermitted(operations[c][i][k], to)
       /\ operations' = [operations EXCEPT ![c][i][k] = to]
  /\ UNCHANGED <<configs, statuses, recons, pc, tx, runnerVars, restVars>>

\* ------------------------------------------------ StartReconciliation
\* The caller holds the state of one config version of the cluster and
\* db.Transaction opens the transaction.
StartBegin(p, c, v) ==
  /\ pc[p] = "idle"
  /\ v \in DOMAIN configs[c]
  /\ RoomForStatus(c)
  /\ RoomForRecon(c)
  /\ tx' = [tx EXCEPT ![p] =
       [NoTx EXCEPT !.op = "start", !.cluster = c, !.state = Get(c, v)]]
  /\ pc' = [pc EXCEPT ![p] = "s_create"]
  /\ UNCHANGED <<storeVars, runnerVars, restVars>>

\* StartCreate with the error of CreateReconciliation logged but not returned.
StartCreateNoReturn(p) ==
  /\ pc[p] = "s_create"
  /\ \A q \in Procs \ {p} : ~(tx[q].wRecon /\ tx[q].cluster = tx[p].cluster)
  /\ tx' = [tx EXCEPT ![p].wRecon = (CreateReconciliation(tx[p].state) = "nil")]
  /\ pc' = [pc EXCEPT ![p] = "s_update"]
  /\ UNCHANGED <<storeVars, runnerVars, restVars>>

\* reconRepo.CreateReconciliation and the handling of its error. The insert
\* waits for an uncommitted insert of another transaction into the same
\* cluster's single-flight index.
StartCreate(p) ==
  /\ pc[p] = "s_create"
  /\ \A q \in Procs \ {p} : ~(tx[q].wRecon /\ tx[q].cluster = tx[p].cluster)
  /\ LET err == CreateReconciliation(tx[p].state)
     IN IF err # "nil"
          THEN /\ tx' = [tx EXCEPT ![p].err = err]
               /\ pc' = [pc EXCEPT ![p] = "tx_end"]
          ELSE /\ tx' = [tx EXCEPT ![p].wRecon = TRUE]
               /\ pc' = [pc EXCEPT ![p] = "s_update"]
  /\ UNCHANGED <<storeVars, runnerVars, restVars>>

\* StartUpdate with the error of UpdateStatus logged but nil returned.
StartUpdateNilReturned(p) ==
  /\ pc[p] = "s_update"
  /\ LET r == UpdateStatus(tx[p].state, "Reconciling")
     IN tx' = [tx EXCEPT ![p].wStatus = r.rec, ![p].updated = TRUE]
  /\ pc' = [pc EXCEPT ![p] = "tx_end"]
  /\ UNCHANGED <<storeVars, runnerVars, restVars>>

\* inventory.UpdateStatus(clusterState, Reconciling); dbOp returns its error.
StartUpdate(p) ==
  /\ pc[p] = "s_update"
  /\ LET r == UpdateStatus(tx[p].state, "Reconciling")
     IN tx' = [tx EXCEPT ![p].wStatus = r.rec, ![p].err = r.err,
                         ![p].updated = TRUE]
  /\ pc' = [pc EXCEPT ![p] = "tx_end"]
  /\ UNCHANGED <<storeVars, runnerVars, restVars>>

\* ----------------------------------------------- FinishReconciliation
FinishBegin(p, c, i, status) ==
  /\ pc[p] = "idle"
  /\ Exists(c)
  /\ i \in 0..Len(recons[c])
  /\ RoomForStatus(c)
  /\ tx' = [tx EXCEPT ![p] =
       [NoTx EXCEPT !.op = "finish", !.cluster = c, !.schedulingID = i,
                    !.status = status]]
  /\ pc' = [pc EXCEPT ![p] = "f_get"]
  /\ UNCHANGED <<storeVars, runnerVars, restVars>>

\* FinishGetReconciliation without the check of reconEntity.Finished.
FinishGetReconciliationUnchecked(p) ==
  /\ pc[p] = "f_get"
  /\ LET c == tx[p].cluster
         i == tx[p].schedulingID
     IN IF i \notin DOMAIN recons[c]
          THEN /\ tx' = [tx EXCEPT ![p].err = "NotFound"]
               /\ pc' = [pc EXCEPT ![p] = "tx_end"]
          ELSE /\ tx' = [tx EXCEPT ![p].state =
                      [cluster |-> c,
                       configVersion |-> recons[c][i].clusterConfig,
                       status |-> ""]]
               /\ pc' = [pc EXCEPT ![p] = "f_state"]
  /\ UNCHANGED <<storeVars, runnerVars, restVars>>

\* reconRepo.GetReconciliation and the refusal of a finished reconciliation.
FinishGetReconciliation(p) ==
  /\ pc[p] = "f_get"
  /\ LET c == tx[p].cluster
         i == tx[p].schedulingID
     IN IF i \notin DOMAIN recons[c]
          THEN /\ tx' = [tx EXCEPT ![p].err = "NotFound"]
               /\ pc' = [pc EXCEPT ![p] = "tx_end"]
          ELSE IF recons[c][i].finished
            THEN /\ tx' = [tx EXCEPT ![p].err = "AlreadyFinished"]
                 /\ pc' = [pc EXCEPT ![p] = "tx_end"]
            ELSE /\ tx' = [tx EXCEPT ![p].state =
                        [cluster |-> c,
                         configVersion |-> recons[c][i].clusterConfig,
                         status |-> ""]]
                 /\ pc' = [pc EXCEPT ![p] = "f_state"]
  /\ UNCHANGED <<storeVars, runnerVars, restVars>>

\* FinishGetState with the state of the cluster's latest config version.
FinishGetStateLatest(p) ==
  /\ pc[p] = "f_state"
  /\ tx' = [tx EXCEPT ![p].state = Get(tx[p].cluster, Len(configs[tx[p].cluster]))]
  /\ pc' = [pc EXCEPT ![p] = "f_update"]
  /\ UNCHANGED <<storeVars, runnerVars, restVars>>

\* inventory.Get(reconEntity.Cluster, reconEntity.ClusterConfig).
FinishGetState(p) ==
  /\ pc[p] = "f_state"
  /\ tx' = [tx EXCEPT ![p].state = Get(tx[p].cluster, tx[p].state.configVersion)]
  /\ pc' = [pc EXCEPT ![p] = "f_update"]
  /\ UNCHANGED <<storeVars, runnerVars, restVars>>

\* inventory.UpdateStatus(clusterState, status).
FinishUpdate(p) ==
  /\ pc[p] = "f_update"
  /\ LET r == UpdateStatus(tx[p].state, tx[p].status)
     IN /\ tx' = [tx EXCEPT ![p].wStatus = r.rec, ![p].err = r.err,
                            ![p].updated = TRUE]
        /\ pc' = [pc EXCEPT ![p] = IF r.err = "nil" THEN "f_finish" ELSE "tx_end"]
  /\ UNCHANGED <<storeVars, runnerVars, restVars>>

\* FinishRepo with the error of reconRepo.FinishReconciliation logged but nil
\* returned.
FinishRepoNilReturned(p) ==
  /\ pc[p] = "f_finish"
  /\ \A q \in Procs \ {p} :
       ~(tx[q].wFinish /\ tx[q].cluster = tx[p].cluster
                       /\ tx[q].schedulingID = tx[p].schedulingID)
  /\ LET err == RepoFinishReconciliation(tx[p].cluster, tx[p].schedulingID)
     IN tx' = [tx EXCEPT ![p].wFinish = (err = "nil")]
  /\ pc' = [pc EXCEPT ![p] = "tx_end"]
  /\ UNCHANGED <<storeVars, runnerVars, restVars>>

\* reconRepo.FinishReconciliation(schedulingID, clusterState.Status). The
\* update waits for an uncommitted update of the same row.
FinishRepo(p) ==
  /\ pc[p] = "f_finish"
  /\ \A q \in Procs \ {p} :
       ~(tx[q].wFinish /\ tx[q].cluster = tx[p].cluster
                       /\ tx[q].schedulingID = tx[p].schedulingID)
  /\ LET err == RepoFinishReconciliation(tx[p].cluster, tx[p].schedulingID)
     IN tx' = [tx EXCEPT ![p].err = err, ![p].wFinish = (err = "nil")]
  /\ pc' = [pc EXCEPT ![p] = "tx_end"]
  /\ UNCHANGED <<storeVars, runnerVars, restVars>>

\* ------------------------------------------------------- db.Transaction
\* The uncommitted writes of the transaction, applied to the store.
Committed(p) ==
  LET c == tx[p].cluster
      newStatuses == statuses[c] \o tx[p].wStatus
      statusEntity == [statusID |-> Len(newStatuses),
                       configVersion |-> tx[p].state.configVersion,
                       status |-> newStatuses[Len(newStatuses)].status]
  IN [statuses |-> [statuses EXCEPT ![c] = newStatuses],
      recons |->
        IF tx[p].wRecon
          THEN [recons EXCEPT ![c] = Append(@,
                  [clusterConfig |-> tx[p].state.configVersion,
                   finished |-> FALSE, status |-> 0])]
        ELSE IF tx[p].wFinish
          THEN [recons EXCEPT ![c][tx[p].schedulingID] =
                  [@ EXCEPT !.finished = TRUE, !.status = statusEntity.statusID]]
        ELSE recons,
      operations |->
        IF tx[p].wRecon
          THEN [operations EXCEPT ![c] = Append(@,
                  [k \in 1..configs[c][tx[p].state.configVersion] |-> "new"])]
          ELSE operations]

\* Commit when dbOp returned nil, roll back otherwise; the call returns.
TxEnd(p) ==
  /\ pc[p] = "tx_end"
  /\ IF tx[p].err = "nil"
       THEN /\ statuses' = Committed(p).statuses
            /\ recons' = Committed(p).recons
            /\ operations' = Committed(p).operations
       ELSE UNCHANGED <<statuses, recons, operations>>
  /\ pc' = [pc EXCEPT ![p] = "idle"]
  /\ tx' = [tx EXCEPT ![p] = NoTx]
  /\ UNCHANGED <<configs, runnerVars, restVars>>

NextTransition ==
  \/ \E c \in Clusters : CreateOrUpdate(c)
  \/ \E c \in Clusters : Delete(c)
  \/ \E c \in Clusters : DeleteDone(c)
  \/ \E c \in Clusters : \E i \in 1..MaxRecons : \E k \in 1..NumComponents :
       UpdateOperationState(c, i, k)
  \/ \E p \in Procs : \E c \in Clusters : \E v \in 1..MaxConfigVersion :
       StartBegin(p, c, v)
  \/ \E p \in Procs : StartCreate(p)
  \/ \E p \in Procs : StartUpdate(p)
  \/ \E p \in Procs : \E c \in Clusters : \E s \in Statuses :
       \E i \in 0..MaxRecons : FinishBegin(p, c, i, s)
  \/ \E p \in Procs : FinishGetReconciliation(p)
  \/ \E p \in Procs : FinishGetState(p)
  \/ \E p \in Procs : FinishUpdate(p)
  \/ \E p \in Procs : FinishRepo(p)
  \/ \E p \in Procs : TxEnd(p)

SpecTransition == Init /\ [][NextTransition]_vars

\* ======================================================= component runner
ReconcileSteps ==
  {"client", "pre", "install_action", "render", "deploy", "track", "post", "failed"}

\* Kinds of the errors a step of reconcile returns.
ErrorKinds == {"Retriable", "NonRetriable"}

ManifestTypes == {"CRD", "HelmChart"}

\* What chartProvider.Manifests can return: the types of the manifests.
ManifestLists ==
  UNION {[1..k -> ManifestTypes] : k \in 0..MaxManifests}

\* The retried function is executing.
InAttempt == rpc \in ReconcileSteps \cup {"running"}

\* A ComponentReconciler is configured and Run is called on its runner with
\* a reconciliation model.
NewRunner ==
  /\ rpc = "new"
  /\ \E m \in 1..MaxRetries : \E pre \in BOOLEAN, inst \in BOOLEAN, post \in BOOLEAN :
       runner' = [maxRetries |-> m, preInstallAction |-> pre,
             installAction |-> inst, postInstallAction |-> post]
  /\ installCRD' \in BOOLEAN
  /\ rpc' = "updater"
  /\ UNCHANGED <<attempt, ctxDone, updates, outcomes, ret, delivered, trace,
                 errKind, renderVars, transitionVars, restVars>>

\* The owner of the context cancels it.
Cancel ==
  /\ ~ctxDone
  /\ rpc # "done"
  /\ ctxDone' = TRUE
  /\ UNCHANGED <<runner, rpc, attempt, updates, outcomes, ret, delivered, trace,
                 errKind, installCRD, renderVars, transitionVars, restVars>>

\* status.NewStatusUpdater; Run returns its error.
NewStatusUpdater ==
  /\ rpc = "updater"
  /\ \E ok \in BOOLEAN :
       IF ok THEN rpc' = "do" /\ ret' = ret
             ELSE rpc' = "done" /\ ret' = "err"
  /\ UNCHANGED <<runner, attempt, ctxDone, updates, outcomes, delivered, trace,
                 errKind, installCRD, renderVars, transitionVars, restVars>>

\* retry.Do with Attempts(maxRetries) and Context(ctx): nothing is tried
\* under a context that is already cancelled.
RetryDo ==
  /\ rpc = "do"
  /\ rpc' = IF ctxDone THEN "giveup" ELSE "running"
  /\ attempt' = 0
  /\ UNCHANGED <<runner, ctxDone, updates, outcomes, ret, delivered, trace,
                 errKind, installCRD, renderVars, transitionVars, restVars>>

\* retry.Do after an attempt that returned an error, one attempt too many.
AfterErrorOneMore == IF attempt = runner.maxRetries THEN "giveup" ELSE "delay"

\* retry.Do after an attempt that returned an error: the last attempt ends
\* the loop, any other waits for the retry delay. No RetryIf option is
\* given and no error is marked unrecoverable, so the kind of the error is
\* not looked at.
AfterError == IF attempt = runner.maxRetries - 1 THEN "giveup" ELSE "delay"

\* statusUpdater.Running at the start of the retried function; the locals
\* of reconcile are fresh in every attempt.
Running ==
  /\ rpc = "running"
  /\ updates' = Append(updates, "running")
  /\ \E ok \in BOOLEAN :
       /\ delivered' = Append(delivered, ok)
       /\ IF ok THEN /\ rpc' = "client"
                     /\ outcomes' = outcomes
                     /\ trace' = <<"client">>
                ELSE /\ rpc' = AfterError
                     /\ outcomes' = Append(outcomes, "updater")
                     /\ trace' = <<>>
  /\ errKind' = "nil"
  /\ manifests' = <<>>
  /\ manifest' = <<>>
  /\ illegalState' = FALSE
  /\ deployed' = <<>>
  /\ UNCHANGED <<runner, attempt, ctxDone, ret, installCRD, transitionVars,
                 restVars>>

AfterInstall == IF runner.postInstallAction THEN "post" ELSE "return"

\* The default install path taken although an install action is registered.
AfterPreInstallDefaultPath == "render"

\* reconcile after the pre-install action: the registered install action or
\* else the default install path.
AfterPreInstall == IF runner.installAction THEN "install_action" ELSE "render"

AfterClient == IF runner.preInstallAction THEN "pre" ELSE AfterPreInstall

\* A step of reconcile returned an error: reconcile returns it.
StepFailed(kind) ==
  /\ rpc' = "failed"
  /\ errKind' = kind
  /\ UNCHANGED <<outcomes, trace>>

\* A step of reconcile returned without error: the next step starts, and
\* after the last step reconcile returns nil, the retried function returns
\* nil and retry.Do returns nil.
StepDone(next) ==
  /\ IF next = "return"
       THEN rpc' = "success" /\ outcomes' = Append(outcomes, "nil") /\ trace' = trace
       ELSE rpc' = next /\ outcomes' = outcomes /\ trace' = Append(trace, next)
  /\ errKind' = errKind

\* One step of reconcile that neither renders nor deploys.
ReconcileStep(at, next) ==
  /\ rpc = at
  /\ \/ \E kind \in ErrorKinds : StepFailed(kind)
     \/ StepDone(next)
  /\ UNCHANGED <<runner, attempt, ctxDone, updates, ret, delivered, installCRD,
                 renderVars, transitionVars, restVars>>

\* kubernetes.NewKubernetesClient and kubeClient.Clientset.
KubeClient == ReconcileStep("client", AfterClient)

PreInstall == ReconcileStep("pre", AfterPreInstall)

InstallAction == ReconcileStep("install_action", AfterInstall)

\* The bundle renderManifest writes: for every manifest a separator and the
\* manifest under a header of its type.
Bundle(ms) ==
  [i \in 1..(2 * Len(ms)) |-> IF i % 2 = 1 THEN "---" ELSE ms[i \div 2]]

\* The loop of renderManifest logs an illegal state for a CRD manifest that
\* was not requested.
IllegalStateDetected(ms) ==
  \E i \in DOMAIN ms : ~installCRD /\ ms[i] = "CRD"

\* renderManifest with a CRD manifest that was not requested left out of the
\* bundle.
RenderManifestCRDSkipped ==
  /\ rpc = "render"
  /\ \/ /\ \E kind \in ErrorKinds : StepFailed(kind)
        /\ UNCHANGED <<manifests, manifest, illegalState>>
     \/ \E ms \in ManifestLists :
          /\ manifests' = ms
          /\ illegalState' = IllegalStateDetected(ms)
          /\ manifest' = Bundle(SelectSeq(ms, LAMBDA t : installCRD \/ t # "CRD"))
          /\ StepDone("deploy")
  /\ UNCHANGED <<runner, attempt, ctxDone, updates, ret, delivered, installCRD,
                 deployed, transitionVars, restVars>>

\* renderManifest as called by install: the error of chartProvider.Manifests
\* is returned, otherwise every manifest is written to the bundle and nil is
\* returned.
RenderManifest ==
  /\ rpc = "render"
  /\ \/ /\ \E kind \in ErrorKinds : StepFailed(kind)
        /\ UNCHANGED <<manifests, manifest, illegalState>>
     \/ \E ms \in ManifestLists :
          /\ manifests' = ms
          /\ illegalState' = IllegalStateDetected(ms)
          /\ manifest' = Bundle(ms)
          /\ StepDone("deploy")
  /\ UNCHANGED <<runner, attempt, ctxDone, updates, ret, delivered, installCRD,
                 deployed, transitionVars, restVars>>

\* kubeClient.Deploy(manifest).
Deploy ==
  /\ rpc = "deploy"
  /\ deployed' = manifest
  /\ \/ \E kind \in ErrorKinds : StepFailed(kind)
     \/ StepDone("track")
  /\ UNCHANGED <<runner, attempt, ctxDone, updates, ret, delivered, installCRD,
                 manifests, manifest, illegalState, transitionVars, restVars>>

TrackProgress == ReconcileStep("track", AfterInstall)

PostInstall == ReconcileStep("post", "return")

\* The retried function after a failed reconcile, without statusUpdater.Failed.
FailedNotSent ==
  /\ rpc = "failed"
  /\ outcomes' = Append(outcomes, "reconcile")
  /\ rpc' = AfterError
  /\ trace' = <<>>
  /\ errKind' = "nil"
  /\ manifests' = <<>>
  /\ manifest' = <<>>
  /\ illegalState' = FALSE
  /\ deployed' = <<>>
  /\ UNCHANGED <<runner, attempt, ctxDone, updates, ret, delivered, installCRD,
                 transitionVars, restVars>>

\* The retried function after a failed reconcile: statusUpdater.Failed, then
\* the error of Failed or else the error of reconcile is returned; the locals
\* of the attempt are gone.
Failed ==
  /\ rpc = "failed"
  /\ updates' = Append(updates, "failed")
  /\ \E ok \in BOOLEAN : delivered' = Append(delivered, ok)
  /\ outcomes' = Append(outcomes, "reconcile")
  /\ rpc' = AfterError
  /\ trace' = <<>>
  /\ errKind' = "nil"
  /\ manifests' = <<>>
  /\ manifest' = <<>>
  /\ illegalState' = FALSE
  /\ deployed' = <<>>
  /\ UNCHANGED <<runner, attempt, ctxDone, ret, installCRD, transitionVars,
                 restVars>>

\* The retry delay elapses although the context is cancelled (retry.Do
\* without the option Context).
DelayElapsedNoContext ==
  /\ rpc = "delay"
  /\ attempt' = attempt + 1
  /\ rpc' = "running"
  /\ UNCHANGED <<runner, ctxDone, updates, outcomes, ret, delivered, trace,
                 errKind, installCRD, renderVars, transitionVars, restVars>>

\* retry.Do: the retry delay elapses and the next attempt starts.
DelayElapsed ==
  /\ rpc = "delay"
  /\ ~ctxDone
  /\ attempt' = attempt + 1
  /\ rpc' = "running"
  /\ UNCHANGED <<runner, ctxDone, updates, outcomes, ret, delivered, trace,
                 errKind, installCRD, renderVars, transitionVars, restVars>>

\* retry.Do: the context is done during the retry delay, Do returns ctx.Err().
DelayCancelled ==
  /\ rpc = "delay"
  /\ ctxDone
  /\ rpc' = "giveup"
  /\ UNCHANGED <<runner, attempt, ctxDone, updates, outcomes, ret, delivered,
                 trace, errKind, installCRD, renderVars, transitionVars, restVars>>

\* Success with the error of statusUpdater.Success dropped.
SuccessErrorDropped ==
  /\ rpc = "success"
  /\ updates' = Append(updates, "success")
  /\ \E ok \in BOOLEAN :
       /\ delivered' = Append(delivered, ok)
       /\ ret' = "nil"
  /\ rpc' = "done"
  /\ UNCHANGED <<runner, attempt, ctxDone, outcomes, trace, errKind, installCRD,
                 renderVars, transitionVars, restVars>>

\* Run after retry.Do returned nil: statusUpdater.Success, whose error is
\* returned.
Success ==
  /\ rpc = "success"
  /\ updates' = Append(updates, "success")
  /\ \E ok \in BOOLEAN :
       /\ delivered' = Append(delivered, ok)
       /\ ret' = IF ok THEN "nil" ELSE "err"
  /\ rpc' = "done"
  /\ UNCHANGED <<runner, attempt, ctxDone, outcomes, trace, errKind, installCRD,
                 renderVars, transitionVars, restVars>>

\* Run after retry.Do returned an error, the error of the context included:
\* the warning "failed consistently: giving up" is logged, statusUpdater.Error
\* is called, and the error of Error or else the error of retry.Do is
\* returned.
GiveUp ==
  /\ rpc = "giveup"
  /\ updates' = Append(updates, "error")
  /\ \E ok \in BOOLEAN : delivered' = Append(delivered, ok)
  /\ ret' = "err"
  /\ rpc' = "done"
  /\ UNCHANGED <<runner, attempt, ctxDone, outcomes, trace, errKind, installCRD,
                 renderVars, transitionVars, restVars>>

\* The steps of Run itself.
RunStep ==
  \/ NewStatusUpdater
  \/ RetryDo
  \/ Running
  \/ KubeClient
  \/ PreInstall
  \/ InstallAction
  \/ RenderManifest
  \/ Deploy
  \/ TrackProgress
  \/ PostInstall
  \/ Failed
  \/ DelayElapsed
  \/ DelayCancelled
  \/ Success
  \/ GiveUp

NextRunner == NewRunner \/ Cancel \/ RunStep

SpecRunner == Init /\ [][NextRunner]_vars

\* Run is scheduled fairly and none of its steps blocks for ever.
FairSpecRunner == SpecRunner /\ WF_vars(RunStep)

\* ========================================================== REST handlers
\* Cluster names a request can carry: the clusters of the inventory and a
\* name the inventory never held.
RequestClusters == Clusters \cup {"unknown"}

\* A failure of the storage behind the inventory.
InventoryErrors == {"nil", "Internal"}

\* The error of Inventory.Get.
GetError(c, v) ==
  IF c \in Clusters /\ v \in DOMAIN configs[c] THEN "nil" ELSE "NotFound"

\* The error of Inventory.GetLatest.
GetLatestError(c) ==
  IF c \in Clusters /\ Exists(c) THEN "nil" ELSE "NotFound"

\* The error of Inventory.Delete.
DeleteError(c) ==
  IF GetLatestError(c) # "nil" THEN "NotFound"
  ELSE IF LatestStatus(c) \in {"Deleting", "Deleted"} THEN "InvalidTransition"
  ELSE "nil"

\* The errors of Inventory.StatusChanges: NotFound or an empty sequence for a
\* cluster the inventory does not hold.
StatusChangesErrors(c) ==
  IF GetLatestError(c) = "nil" THEN {"nil"} ELSE {"nil", "NotFound"}

\* The response of a handler to a request for cluster c, after nothing but
\* one inventory call.
Response(handler, c, code, invErr) ==
  [NoResponse EXCEPT !.handler = handler, !.cluster = c, !.code = code,
                     !.invErr = invErr]

\* PUT|POST /clusters: 400 for a malformed request, 500 when the inventory
\* fails, the payload (200) otherwise.
createOrUpdate ==
  \E c \in Clusters : \E wellFormed \in BOOLEAN : \E fault \in InventoryErrors :
    /\ Len(configs[c]) < MaxConfigVersion
    /\ RoomForStatus(c)
    /\ Exists(c) => LatestStatus(c) # "Deleted"
    /\ IF ~wellFormed
         THEN /\ resp' = Response("createOrUpdate", c, 400, "nil")
              /\ UNCHANGED <<configs, statuses>>
       ELSE IF fault # "nil"
         THEN /\ resp' = Response("createOrUpdate", c, 500, fault)
              /\ UNCHANGED <<configs, statuses>>
       ELSE /\ \E n \in 1..NumComponents :
                 configs' = [configs EXCEPT ![c] = Append(@, n)]
            /\ statuses' = [statuses EXCEPT ![c] =
                 Append(@, [configVersion |-> Len(configs[c]) + 1,
                            status |-> "Reconcilable"])]
            /\ resp' = Response("createOrUpdate", c, 200, "nil")
    /\ UNCHANGED <<recons, operations, pc, tx, runnerVars>>

\* GET /clusters/{cluster}/configs/{configVersion}/status: 400 for a
\* malformed parameter, 500 for every error of Inventory.Get, the payload
\* (200) otherwise.
get ==
  \E c \in RequestClusters : \E v \in 1..MaxConfigVersion :
  \E wellFormed \in BOOLEAN : \E fault \in InventoryErrors :
    /\ LET err == IF fault # "nil" THEN fault ELSE GetError(c, v)
       IN resp' = IF ~wellFormed THEN Response("get", c, 400, "nil")
                  ELSE IF err # "nil" THEN Response("get", c, 500, err)
                  ELSE Response("get", c, 200, "nil")
    /\ UNCHANGED <<transitionVars, runnerVars>>

\* GET /clusters/{cluster}/statusChanges/{offset}: 400 for a malformed
\* offset, 500 for every error of Inventory.StatusChanges, the changes (200)
\* otherwise.
statusChanges ==
  \E c \in RequestClusters : \E wellFormed \in BOOLEAN :
  \E fault \in InventoryErrors : \E found \in StatusChangesErrors(c) :
    /\ LET err == IF fault # "nil" THEN fault ELSE found
       IN resp' = IF ~wellFormed THEN Response("statusChanges", c, 400, "nil")
                  ELSE IF err # "nil" THEN Response("statusChanges", c, 500, err)
                  ELSE Response("statusChanges", c, 200, "nil")
    /\ UNCHANGED <<transitionVars, runnerVars>>

\* DELETE /clusters/{cluster}: 404 when Inventory.GetLatest reports NotFound;
\* otherwise Inventory.Delete is invoked, its error gives 500, and after its
\* success the handler returns without writing a status or a body, which
\* net/http sends as 200.
delete ==
  \E c \in RequestClusters : \E fault \in InventoryErrors :
  \E delFault \in InventoryErrors :
    /\ c \in Clusters => RoomForStatus(c)
    /\ LET latestErr == IF fault # "nil" THEN fault ELSE GetLatestError(c)
           delErr == IF delFault # "nil" THEN delFault ELSE DeleteError(c)
       IN IF latestErr = "NotFound"
            THEN /\ resp' = Response("delete", c, 404, latestErr)
                 /\ UNCHANGED statuses
          ELSE IF delErr # "nil"
            THEN /\ resp' = [Response("delete", c, 500, latestErr) EXCEPT
                               !.deleteInvoked = TRUE, !.delErr = delErr]
                 /\ UNCHANGED statuses
          ELSE /\ resp' = [Response("delete", c, 200, latestErr) EXCEPT
                             !.deleteInvoked = TRUE]
               /\ statuses' = [statuses EXCEPT ![c] =
                    Append(@, [configVersion |-> Len(configs[c]),
                               status |-> "Deleting"])]
    /\ UNCHANGED <<configs, recons, operations, pc, tx, runnerVars>>

\* The deletion of a cluster completes outside the handlers.
NextRest ==
  \/ createOrUpdate
  \/ get
  \/ statusChanges
  \/ delete
  \/ \E c \in Clusters : DeleteDone(c)

SpecRest == Init /\ [][NextRest]_vars

\* ============================================================ properties
Returns(p, op) == pc[p] = "tx_end" /\ tx[p].op = op /\ pc'[p] = "idle"

NoWrites(t) == ~t.wRecon /\ ~t.wFinish /\ t.wStatus = <<>>

Count(history, status) ==
  Cardinality({i \in DOMAIN history : history[i].status = status})

\* C1: for every cluster at most one reconciliation is not finished, whatever
\* the interleaving of StartReconciliation and FinishReconciliation calls.
C1_SingleFlight == \A c \in Clusters : Cardinality(InFlight(c)) <= 1

\* C1 witness: a Start is refused as a duplicate while another
\* reconciliation of the cluster is in flight.
C1_Witness ==
  \E c \in Clusters : \E p \in Procs :
    /\ InFlight(c) # {}
    /\ pc[p] = "tx_end" /\ tx[p].op = "start" /\ tx[p].cluster = c
    /\ tx[p].err = "DuplicateClusterReconciliation"

\* C2: StartReconciliation is atomic. When it returns nil, one new
\* unfinished reconciliation with its operations (all new) and one new
\* status record Reconciling are visible; when it returns an error, the store
\* is unchanged. Only Start appends a Reconciling record that gets committed,
\* so the records Reconciling and the reconciliations stay paired.
C2_StartAtomic ==
  [][\A p \in Procs : Returns(p, "start") =>
       LET c == tx[p].cluster
           n == Len(recons[c]) + 1
       IN IF tx[p].err = "nil"
            THEN /\ Len(recons'[c]) = n
                 /\ ~recons'[c][n].finished
                 /\ recons'[c][n].clusterConfig = tx[p].state.configVersion
                 /\ DOMAIN operations'[c] = 1..n
                 /\ \A k \in DOMAIN operations'[c][n] : operations'[c][n][k] = "new"
                 /\ Len(statuses'[c]) = Len(statuses[c]) + 1
                 /\ statuses'[c][Len(statuses'[c])].status = "Reconciling"
                 /\ Count(statuses'[c], "Reconciling") = Len(recons'[c])
            ELSE UNCHANGED storeVars]_vars

\* C2 witness: UpdateStatus failed after CreateReconciliation succeeded, and
\* the transaction is about to roll the reconciliation back.
C2_Witness ==
  \E p \in Procs :
    /\ pc[p] = "tx_end" /\ tx[p].op = "start"
    /\ tx[p].wRecon /\ tx[p].err = "InvalidTransition"

\* C3 as claimed: the latest status of a cluster is Reconciling if and only
\* if the cluster has a reconciliation in flight.
C3_Original ==
  \A c \in Clusters : Exists(c) =>
    (LatestStatus(c) = "Reconciling" <=> InFlight(c) # {})

\* C3 amended: a cluster whose latest status is Reconciling has a
\* reconciliation in flight, and a cluster with a reconciliation in flight is
\* never Ready or Error (CreateOrUpdate and Delete may have moved it to
\* Reconcilable, Deleting or Deleted in the meantime).
C3_Amended ==
  \A c \in Clusters : Exists(c) =>
    /\ LatestStatus(c) = "Reconciling" => InFlight(c) # {}
    /\ InFlight(c) # {} => LatestStatus(c) \notin {"Ready", "Error"}

\* C3 witness: a reconciliation is in flight and the cluster has left
\* Reconciling through a new configuration.
C3_Witness ==
  \E c \in Clusters :
    /\ InFlight(c) # {}
    /\ Exists(c) /\ LatestStatus(c) = "Reconcilable"

\* C4: a StartReconciliation whose CreateReconciliation finds a
\* reconciliation in flight returns DuplicateClusterReconciliation without
\* invoking UpdateStatus and without writing, and the transaction of a Start
\* that returns this error leaves the store unchanged.
C4_DuplicateRefused ==
  [][\A p \in Procs :
       /\ (pc[p] = "s_create" /\ pc'[p] # "s_create"
            /\ InFlight(tx[p].cluster) # {}) =>
             /\ pc'[p] = "tx_end"
             /\ tx'[p].err = "DuplicateClusterReconciliation"
             /\ ~tx'[p].updated
             /\ NoWrites(tx'[p])
       /\ (Returns(p, "start") /\ tx[p].err = "DuplicateClusterReconciliation") =>
             /\ ~tx[p].updated
             /\ UNCHANGED storeVars]_vars

\* C4 witness: the duplicate is returned to a caller that holds the state
\* of a new config version, and the store holds the one reconciliation.
C4_Witness ==
  \E p \in Procs :
    /\ pc[p] = "tx_end" /\ tx[p].op = "start"
    /\ tx[p].err = "DuplicateClusterReconciliation"
    /\ tx[p].state.configVersion = 2
    /\ Len(recons[tx[p].cluster]) = 1

\* C5: FinishReconciliation of a reconciliation that is already finished is
\* refused with AlreadyFinished before any write, and the store is unchanged
\* when the call returns.
C5_AlreadyFinishedRefused ==
  [][\A p \in Procs :
       /\ (pc[p] = "f_get" /\ pc'[p] # "f_get"
            /\ tx[p].schedulingID \in DOMAIN recons[tx[p].cluster]
            /\ recons[tx[p].cluster][tx[p].schedulingID].finished) =>
             /\ pc'[p] = "tx_end"
             /\ tx'[p].err = "AlreadyFinished"
             /\ NoWrites(tx'[p])
       /\ (Returns(p, "finish") /\ tx[p].err = "AlreadyFinished") =>
             UNCHANGED storeVars]_vars

\* C5 witness: a late FinishReconciliation has been refused.
C5_Witness ==
  \E p \in Procs :
    /\ pc[p] = "tx_end" /\ tx[p].op = "finish"
    /\ tx[p].err = "AlreadyFinished" /\ ~tx[p].updated
    /\ recons[tx[p].cluster][tx[p].schedulingID].finished

\* C6 as claimed: a reconciliation is finished if and only if every one of
\* its operations is done or error.
C6_Original ==
  \A c \in Clusters : \A i \in DOMAIN recons[c] :
    recons[c][i].finished <=> AllTerminal(c, i)

\* C6 amended: a finished reconciliation has only terminal operations, and
\* a FinishReconciliation that returns while an operation is not terminal
\* leaves the store unchanged (the reconciliation stays unfinished and no
\* status record is appended).
C6_Amended ==
  [][/\ \A c \in Clusters : \A i \in DOMAIN recons'[c] :
          recons'[c][i].finished => AllTerminal(c, i)'
     /\ \A p \in Procs :
          (/\ Returns(p, "finish")
           /\ tx[p].schedulingID \in DOMAIN recons[tx[p].cluster]
           /\ ~AllTerminal(tx[p].cluster, tx[p].schedulingID)) =>
             UNCHANGED storeVars]_vars

\* C6 witness: the repository refused to finish a reconciliation whose
\* operation is still in progress, after the status was updated.
C6_Witness ==
  \E p \in Procs :
    /\ pc[p] = "tx_end" /\ tx[p].op = "finish"
    /\ tx[p].wStatus # <<>> /\ tx[p].err # "nil"
    /\ ~recons[tx[p].cluster][tx[p].schedulingID].finished
    /\ ~AllTerminal(tx[p].cluster, tx[p].schedulingID)

\* C7 as claimed: every status record committed by StartReconciliation or
\* FinishReconciliation is a transition of the cluster that the state machine
\* permits from the cluster's latest status, and Deleted is terminal.
C7_Original ==
  [][\A p \in Procs :
       (pc[p] = "tx_end" /\ pc'[p] = "idle"
          /\ Len(statuses'[tx[p].cluster]) > Len(statuses[tx[p].cluster])) =>
         LET c == tx[p].cluster
         IN Permitted(LatestStatus(c), statuses'[c][Len(statuses'[c])].status)]_vars

CountOf(seq, x) == Cardinality({i \in DOMAIN seq : seq[i] = x})

\* Calls of the retried function that reached reconcile, finished or not.
ReconcileAttempts ==
  CountOf(outcomes, "nil") + CountOf(outcomes, "reconcile")
    + (IF rpc \in ReconcileSteps THEN 1 ELSE 0)

\* Calls of the retried function, finished or not.
Started == Len(outcomes) + (IF InAttempt THEN 1 ELSE 0)

C8_Safety ==
  /\ ReconcileAttempts <= runner.maxRetries
  /\ \A i \in DOMAIN outcomes :
       outcomes[i] = "nil" => i = Len(outcomes) /\ ~InAttempt /\ rpc # "delay"
  /\ (rpc = "done" /\ CountOf(outcomes, "nil") > 0) =>
       updates[Len(updates)] = "success"
  /\ (rpc = "done" /\ Len(outcomes) = runner.maxRetries
        /\ CountOf(outcomes, "nil") = 0) =>
       updates[Len(updates)] = "error" /\ ret = "err"

\* C8: Run makes at most maxRetries reconcile attempts and none after an
\* attempt that succeeded; after a successful attempt the status updater is
\* driven to success, after maxRetries failed attempts it is driven to error
\* and Run returns an error; and under fair scheduling of steps that do not
\* block, a Run that was called terminates.
C8_RunRetries == []C8_Safety /\ ((rpc # "new") ~> (rpc = "done"))

\* C8 witness: a Run configured with several retries used them all up.
C8_Witness ==
  /\ rpc = "done" /\ runner.maxRetries >= 2
  /\ Len(outcomes) = runner.maxRetries
  /\ CountOf(outcomes, "reconcile") = runner.maxRetries
  /\ ret = "err"

\* C9: the lifecycle states sent to the status updater follow its state
\* machine: every attempt starts with running, failed is sent once for each
\* attempt whose reconcile returned an error and directly after that
\* attempt's running, success and error are sent last and at most one of
\* them is sent.
C9_UpdaterProtocol ==
  /\ \A i \in DOMAIN updates :
       /\ updates[i] \in {"success", "error"} => i = Len(updates) /\ rpc = "done"
       /\ updates[i] = "failed" => i > 1 /\ updates[i - 1] = "running"
       /\ updates[i] = "running" => i = 1 \/ updates[i - 1] \in {"running", "failed"}
  /\ CountOf(updates, "failed") = CountOf(outcomes, "reconcile")
  /\ CountOf(updates, "running") =
       Len(outcomes) + (IF rpc \in ReconcileSteps THEN 1 ELSE 0)

\* C9 witness: a failed attempt, a retry and the terminal success.
C9_Witness == updates = <<"running", "failed", "running", "success">>

\* C10: once the context is cancelled, no further call of the retried
\* function (no new reconcile attempt) is started, whether the context was
\* cancelled before Run started, during an attempt or during the retry delay.
C10_CancelStopsRetries == [][ctxDone => Started' = Started]_vars

\* C10 witness: Run ended on the cancelled context during the retry delay
\* with attempts remaining.
C10_Witness ==
  /\ rpc = "done" /\ ctxDone
  /\ outcomes # <<>> /\ Len(outcomes) < runner.maxRetries
  /\ CountOf(outcomes, "nil") = 0

\* The steps of one attempt that the runner starts after the kubernetes
\* client was built.
AttemptSteps == {"pre", "install_action", "render", "deploy", "track", "post"}

\* C11 as claimed: when the context is cancelled while a step of an attempt
\* is running, no later step of that attempt is started after the running
\* step returns.
C11_Original ==
  [][(ctxDone /\ rpc \in AttemptSteps /\ rpc' # rpc) =>
       rpc' \notin AttemptSteps]_vars

\* retry.Do returned the error of the cancelled context: Run has ended
\* without a successful attempt and with attempts left.
EndedByCancellation ==
  /\ rpc = "done" /\ ctxDone
  /\ CountOf(outcomes, "nil") = 0
  /\ Len(outcomes) < runner.maxRetries

\* C12 as claimed: a Run that ended because its context was cancelled has
\* not taken the giving-up branch: the status updater was not driven to the
\* terminal state error, which is reserved for the exhaustion of the retries.
C12_Original == EndedByCancellation => CountOf(updates, "error") = 0

\* C13 as claimed: an attempt whose reconcile failed with a NonRetriable
\* error is not retried, it leads immediately to the end of the retry loop
\* with an error; only Retriable errors consume further attempts.
C13_Original ==
  [][(rpc = "failed" /\ errKind = "NonRetriable" /\ rpc' # rpc) =>
       rpc' = "giveup"]_vars

\* C14 as claimed: a request of get, statusChanges or delete to which the
\* inventory answered NotFound is responded with 404, never with 500 or 200.
C14_Original ==
  (resp.handler \in {"get", "statusChanges", "delete"}
     /\ resp.invErr = "NotFound") => resp.code = 404

\* C15 as claimed: delete responds 204 when the cluster exists and
\* Inventory.Delete succeeded, and 404 without invoking Inventory.Delete when
\* the cluster is unknown.
C15_Original ==
  resp.handler = "delete" =>
    /\ (resp.deleteInvoked /\ resp.delErr = "nil") => resp.code = 204
    /\ resp.invErr = "NotFound" => resp.code = 404 /\ ~resp.deleteInvoked

IsPrefix(s, t) == Len(s) <= Len(t) /\ \A i \in DOMAIN s : s[i] = t[i]

\* The steps of a whole attempt of the configured reconciler, in order.
ExpectedSteps ==
  <<"client">>
    \o (IF runner.preInstallAction THEN <<"pre">> ELSE <<>>)
    \o (IF runner.installAction THEN <<"install_action">>
                                ELSE <<"render", "deploy", "track">>)
    \o (IF runner.postInstallAction THEN <<"post">> ELSE <<>>)

C16_Order ==
  /\ IsPrefix(trace, ExpectedSteps)
  /\ rpc \in ReconcileSteps \ {"failed"} =>
       /\ trace # <<>> /\ trace[Len(trace)] = rpc
       /\ errKind = "nil"
  /\ rpc = "failed" => errKind # "nil"
  /\ rpc = "success" => trace = ExpectedSteps /\ errKind = "nil"
  /\ runner.installAction =>
       /\ \A i \in DOMAIN trace : trace[i] \notin {"render", "deploy", "track"}
       /\ manifest = <<>> /\ deployed = <<>>

C16_FirstFailureEnds ==
  (rpc \in ReconcileSteps \ {"failed"} /\ errKind' # "nil") =>
    rpc' = "failed" /\ trace' = trace

\* C16: the steps of one attempt are started in the fixed order client,
\* pre-install action (if registered), then either the registered install
\* action or render, deploy and track, then post-install action (if
\* registered); a step is started only while no earlier step of the attempt
\* has failed, reconcile returns nil only after all of them, the first
\* failing step ends the attempt with its error and no further step, and
\* with an install action registered nothing is rendered, deployed or
\* tracked.
C16_StepOrder == []C16_Order /\ [][C16_FirstFailureEnds]_vars

\* C16 witness: an attempt with both hooks registered and the default
\* install path ran every step and returned nil.
C16_Witness ==
  /\ rpc = "success"
  /\ trace = <<"client", "pre", "render", "deploy", "track", "post">>

\* The bundle holds a manifest of type CRD.
HoldsCRD(bundle) ==
  \E i \in DOMAIN bundle : i % 2 = 0 /\ bundle[i - 1] = "---" /\ bundle[i] = "CRD"

\* The chart provider returned a CRD manifest that was not requested.
UnrequestedCRD(ms) == ~installCRD /\ \E i \in DOMAIN ms : ms[i] = "CRD"

\* C17: when installCRD is false and the chart provider returns a manifest
\* of type CRD, renderManifest logs the illegal state and returns the bundle
\* with that manifest and no error; the attempt goes on to deploy exactly
\* this bundle and, when the deployment succeeded, to track its progress.
C17_IllegalCRDDeployed ==
  [][/\ (rpc = "render" /\ UnrequestedCRD(manifests')) =>
          /\ rpc' = "deploy" /\ errKind' = "nil"
          /\ illegalState'
          /\ HoldsCRD(manifest') /\ Len(manifest') = 2 * Len(manifests')
     /\ (rpc = "deploy" /\ rpc' # rpc /\ UnrequestedCRD(manifests)) =>
          /\ deployed' = manifest /\ HoldsCRD(deployed')
          /\ rpc' \in {"track", "failed"}
          /\ errKind' = "nil" => rpc' = "track"]_vars

\* C17 witness: the bundle with the CRD that was not requested has been
\* deployed and its progress is tracked.
C17_Witness ==
  /\ rpc = "track" /\ ~installCRD /\ illegalState
  /\ manifests = <<"HelmChart", "CRD">>
  /\ HoldsCRD(deployed)

\* Notifications of one lifecycle state that the status updater did not
\* deliver.
Undelivered(state) ==
  Cardinality({i \in DOMAIN updates : updates[i] = state /\ ~delivered[i]})

\* C18: Run returns nil exactly when a reconcile attempt returned nil and
\* the status updater accepted the success notification that followed; a
\* status updater that cannot be built or that fails to deliver success or
\* error makes Run return an error, every running notification that was
\* not delivered is an attempt that failed without calling reconcile, and
\* every failed notification belongs to a failed attempt.
C18_RunResult ==
  /\ Len(delivered) = Len(updates)
  /\ Undelivered("running") = CountOf(outcomes, "updater")
  /\ CountOf(updates, "failed") = CountOf(outcomes, "reconcile")
  /\ Len(outcomes) <= runner.maxRetries
  /\ rpc = "done" =>
       /\ ret \in {"nil", "err"}
       /\ ret = "nil" <=>
            /\ CountOf(outcomes, "nil") > 0
            /\ updates[Len(updates)] = "success"
            /\ delivered[Len(updates)]

\* C18 witness: the running notification of the first attempt was not
\* delivered, the second attempt reconciled the component, and Run returned
\* an error because the success notification was not delivered.
C18_Witness ==
  /\ rpc = "done" /\ ret = "err"
  /\ updates = <<"running", "running", "success">>
  /\ delivered = <<FALSE, TRUE, FALSE>>
  /\ outcomes = <<"updater", "nil">>

Finished(c) == {i \in DOMAIN recons[c] : recons[c][i].finished}

\* Every finished reconciliation carries a status record of its cluster,
\* and no two of them carry the same record.
C19_OneRecordEach ==
  \A c \in Clusters : \A i \in Finished(c) :
    /\ recons[c][i].status \in DOMAIN statuses[c]
    /\ \A j \in Finished(c) : recons[c][j].status = recons[c][i].status => j = i

\* A FinishReconciliation that returns nil found the reconciliation not
\* finished and leaves it finished with one new record of its own status;
\* one that returns an error leaves the store as it was.
C19_WinnerOrNoEffect ==
  \A p \in Procs :
    (Returns(p, "finish") /\ tx[p].schedulingID \in DOMAIN recons[tx[p].cluster]) =>
      LET c == tx[p].cluster
          i == tx[p].schedulingID
      IN IF tx[p].err = "nil"
           THEN /\ ~recons[c][i].finished
                /\ recons'[c][i].finished
                /\ Len(statuses'[c]) = Len(statuses[c]) + 1
                /\ statuses'[c][Len(statuses'[c])].status = tx[p].status
                /\ recons'[c][i].status = Len(statuses'[c])
           ELSE UNCHANGED storeVars

\* A finished reconciliation is never written again.
C19_FinishedIsFinal ==
  \A c \in Clusters : \A i \in Finished(c) : recons'[c][i] = recons[c][i]

\* C19: of the FinishReconciliation calls for one schedulingID, concurrent
\* ones that all read finished = false included, at most one returns nil: it
\* appends the one final status record of the reconciliation, which the
\* reconciliation carries from then on, and every other call returns an
\* error and leaves no effect.
C19_OneFinishWins ==
  /\ []C19_OneRecordEach
  /\ [][C19_WinnerOrNoEffect /\ C19_FinishedIsFinal]_vars

\* C19 witness: a call that read finished = false and updated the status
\* lost against a concurrent call that has committed in the meantime.
C19_Witness ==
  \E p \in Procs :
    /\ pc[p] = "tx_end" /\ tx[p].op = "finish"
    /\ tx[p].updated /\ tx[p].wStatus # <<>>
    /\ tx[p].err = "AlreadyFinished"
    /\ recons[tx[p].cluster][tx[p].schedulingID].finished

\* C20: a FinishReconciliation that returns nil has appended one record: it
\* has the status of the call and the config version the reconciliation
\* was created for, whatever the latest config version of the cluster is,
\* and the finished reconciliation carries the statusID of this very record;
\* a FinishReconciliation that returns an error after it updated the status
\* leaves the status history and the reconciliation as they were.
C20_FinishStatus ==
  [][\A p \in Procs :
       (Returns(p, "finish") /\ tx[p].updated) =>
         LET c == tx[p].cluster
             i == tx[p].schedulingID
             n == Len(statuses[c]) + 1
         IN IF tx[p].err = "nil"
              THEN /\ Len(statuses'[c]) = n
                   /\ statuses'[c][n] =
                        [configVersion |-> recons[c][i].clusterConfig,
                         status |-> tx[p].status]
                   /\ recons'[c][i] =
                        [recons[c][i] EXCEPT !.finished = TRUE, !.status = n]
              ELSE /\ statuses' = statuses
                   /\ recons' = recons]_vars

\* C20 witness: a reconciliation created for config version 1 is finished
\* successfully while the cluster is at config version 2.
C20_Witness ==
  \E p \in Procs :
    /\ pc[p] = "tx_end" /\ tx[p].op = "finish" /\ tx[p].err = "nil"
    /\ tx[p].wFinish /\ tx[p].wStatus # <<>>
    /\ recons[tx[p].cluster][tx[p].schedulingID].clusterConfig = 1
    /\ Len(configs[tx[p].cluster]) = 2

====
